---- MODULE Spec2Model ----
(***************************************************************************)
(* Model of api/announcements.py: the request handler do_GET, the          *)
(* paginated fetch _gather_for_date with its two-endpoint fallback chain,  *)
(* and the pure helpers (date parsing/formatting, limit_pages clamping,    *)
(* row enrichment).  The upstream provider is the environment: every       *)
(* request it receives is answered by a nondeterministically chosen        *)
(* outcome (raise, body without rows, body with rows).                     *)
(*                                                                         *)
(* Strings that the code parses or formats (date, limit_pages) are         *)
(* sequences of one-character strings; other strings are TLA+ strings.     *)
(***************************************************************************)
EXTENDS Integers, Sequences, FiniteSets, TLC

VARIABLES
    pc,          \* position of the handler: parse, probe, page, respond, done
    path,        \* self.path: wellformed, or one on which urlparse raises
    qs,          \* parse_qs(query): [date, limit_pages], each Absent or a string
    now_utc,     \* datetime.utcnow(): [y, m, d, minute of the day]
    date_obj,    \* do_GET's date_obj: NoDate or [y, m, d]
    page_limit,  \* do_GET's page_limit / _gather_for_date's parameter
    endpoint,    \* index into endpoint_chain of the endpoint being tried
    p,           \* loop variable of the pagination loop
    rows,        \* _gather_for_date's accumulator
    session,     \* the requests.Session of this GET: none, open, closed
    sent,        \* upstream requests sent so far, with their outcomes
    wire         \* what the handler has written to the client so far

vars == <<pc, path, qs, now_utc, date_obj, page_limit, endpoint, p, rows, session, sent, wire>>

----------------------------------------------------------------------------
(* Bounds of the model *)

\* rows the upstream provider serves, in total, during one GET
MaxRows == 2

----------------------------------------------------------------------------
(* Program constants *)

BSE_PRIMARY_URL == 1
BSE_FALLBACK_URL == 2
endpoint_chain == <<BSE_PRIMARY_URL, BSE_FALLBACK_URL>>

DefaultPageLimit == 50
MinPageLimit == 1
MaxPageLimit == 200

AttachBase == "https://www.bseindia.com/xml-data/corpfiling/AttachLive/"
InvalidDateMsg == "Invalid date. Use YYYY-MM-DD."
EncodeErrorMsg == "'utf-8' codec can't encode character: surrogates not allowed"
UrlErrorMsg == "Invalid IPv6 URL"

Absent == <<"(absent)">>
NoDate == [y |-> 0, m |-> 0, d |-> 0]

----------------------------------------------------------------------------
(* Characters and numbers *)

Digits == {"0", "1", "2", "3", "4", "5", "6", "7", "8", "9"}

DigitVal(c) ==
    CASE c = "0" -> 0 [] c = "1" -> 1 [] c = "2" -> 2 [] c = "3" -> 3
      [] c = "4" -> 4 [] c = "5" -> 5 [] c = "6" -> 6 [] c = "7" -> 7
      [] c = "8" -> 8 [] c = "9" -> 9

DigitChar(n) == <<"0", "1", "2", "3", "4", "5", "6", "7", "8", "9">>[n + 1]

IsDigits(s) == Len(s) > 0 /\ \A i \in 1..Len(s) : s[i] \in Digits

RECURSIVE DecVal(_)
DecVal(s) ==
    IF s = <<>> THEN 0
    ELSE 10 * DecVal(SubSeq(s, 1, Len(s) - 1)) + DigitVal(s[Len(s)])

\* n written with exactly w decimal digits (strftime %Y%m%d, isoformat)
RECURSIVE Pad(_, _)
Pad(n, w) ==
    IF w = 0 THEN <<>> ELSE Append(Pad(n \div 10, w - 1), DigitChar(n % 10))

Min(a, b) == IF a < b THEN a ELSE b
Max(a, b) == IF a > b THEN a ELSE b

----------------------------------------------------------------------------
(* Dates *)

IsLeap(y) == (y % 4 = 0 /\ y % 100 # 0) \/ y % 400 = 0

DaysInMonth(y, m) ==
    IF m = 2 THEN (IF IsLeap(y) THEN 29 ELSE 28)
    ELSE IF m \in {4, 6, 9, 11} THEN 30 ELSE 31

\* mutant of fromisoformat: the day is not checked against the month
fromisoformat_no_calendar(s) ==
    IF /\ Len(s) = 10
       /\ s[5] = "-" /\ s[8] = "-"
       /\ IsDigits(SubSeq(s, 1, 4))
       /\ IsDigits(SubSeq(s, 6, 7))
       /\ IsDigits(SubSeq(s, 9, 10))
    THEN LET y == DecVal(SubSeq(s, 1, 4))
             m == DecVal(SubSeq(s, 6, 7))
             d == DecVal(SubSeq(s, 9, 10))
         IN  IF y >= 1 /\ m \in 1..12 /\ d \in 1..31
             THEN [ok |-> TRUE, date |-> [y |-> y, m |-> m, d |-> d]]
             ELSE [ok |-> FALSE, date |-> NoDate]
    ELSE [ok |-> FALSE, date |-> NoDate]

\* datetime.date.fromisoformat on a YYYY-MM-DD string: ok = FALSE is the
\* ValueError
fromisoformat(s) ==
    IF /\ Len(s) = 10
       /\ s[5] = "-" /\ s[8] = "-"
       /\ IsDigits(SubSeq(s, 1, 4))
       /\ IsDigits(SubSeq(s, 6, 7))
       /\ IsDigits(SubSeq(s, 9, 10))
    THEN LET y == DecVal(SubSeq(s, 1, 4))
             m == DecVal(SubSeq(s, 6, 7))
             d == DecVal(SubSeq(s, 9, 10))
         IN  IF y >= 1 /\ m \in 1..12 /\ d >= 1 /\ d <= DaysInMonth(y, m)
             THEN [ok |-> TRUE, date |-> [y |-> y, m |-> m, d |-> d]]
             ELSE [ok |-> FALSE, date |-> NoDate]
    ELSE [ok |-> FALSE, date |-> NoDate]

isoformat(dt) == Pad(dt.y, 4) \o <<"-">> \o Pad(dt.m, 2) \o <<"-">> \o Pad(dt.d, 2)

fmt_bse_date(dt) == Pad(dt.y, 4) \o Pad(dt.m, 2) \o Pad(dt.d, 2)

NextDay(dt) ==
    IF dt.d < DaysInMonth(dt.y, dt.m) THEN [dt EXCEPT !.d = dt.d + 1]
    ELSE IF dt.m < 12 THEN [y |-> dt.y, m |-> dt.m + 1, d |-> 1]
    ELSE [y |-> dt.y + 1, m |-> 1, d |-> 1]

\* utcnow() + 5h30, date part
iso_today_india(now) ==
    IF now.min + 330 >= 1440
    THEN NextDay([y |-> now.y, m |-> now.m, d |-> now.d])
    ELSE [y |-> now.y, m |-> now.m, d |-> now.d]

----------------------------------------------------------------------------
(* limit_pages *)

\* int(s): an optional sign followed by decimal digits; ok = FALSE is the
\* ValueError
int(s) ==
    IF s # <<>> /\ s[1] \in {"-", "+"}
    THEN IF IsDigits(Tail(s))
         THEN [ok |-> TRUE, val |-> IF s[1] = "-" THEN 0 - DecVal(Tail(s)) ELSE DecVal(Tail(s))]
         ELSE [ok |-> FALSE, val |-> 0]
    ELSE IF IsDigits(s) THEN [ok |-> TRUE, val |-> DecVal(s)]
         ELSE [ok |-> FALSE, val |-> 0]

\* mutant of clamp_pages: the lower bound is forgotten
clamp_pages_no_floor(n) == Min(MaxPageLimit, n)

clamp_pages(n) == Max(MinPageLimit, Min(MaxPageLimit, n))

parse_limit(q) ==
    IF q.limit_pages # Absent
    THEN IF int(q.limit_pages).ok THEN clamp_pages(int(q.limit_pages).val)
         ELSE DefaultPageLimit
    ELSE DefaultPageLimit

----------------------------------------------------------------------------
(* Upstream data *)

HeadlinePlain == "Board Meeting"
HeadlineSurrogate == "Board Meeting \\ud83d"

RowKinds == {"none", "upper", "camel", "emptyupper", "both", "empty", "surrogate", "notdict"}

\* what the provider may put at position i of page pg of endpoint ep; NEWSID
\* identifies the row's origin
UpstreamRow(ep, pg, i, kind) ==
    LET id == <<ep, pg, i>> IN
    CASE kind = "none" ->
            [NEWSID |-> id, HEADLINE |-> HeadlinePlain]
      [] kind = "upper" ->
            [NEWSID |-> id, HEADLINE |-> HeadlinePlain, ATTACHMENTNAME |-> "a.pdf"]
      [] kind = "camel" ->
            [NEWSID |-> id, HEADLINE |-> HeadlinePlain, AttachmentName |-> "b.pdf"]
      [] kind = "emptyupper" ->
            [NEWSID |-> id, HEADLINE |-> HeadlinePlain, ATTACHMENTNAME |-> "",
             AttachmentName |-> "b.pdf"]
      [] kind = "both" ->
            [NEWSID |-> id, HEADLINE |-> HeadlinePlain, ATTACHMENTNAME |-> "a.pdf",
             AttachmentName |-> "b.pdf"]
      [] kind = "empty" ->
            [NEWSID |-> id, HEADLINE |-> HeadlinePlain, AttachmentName |-> ""]
      [] kind = "surrogate" ->
            [NEWSID |-> id, HEADLINE |-> HeadlineSurrogate]
      [] kind = "notdict" ->
            [notdict |-> id]

IsDict(item) == "notdict" \notin DOMAIN item

\* the non-empty row lists the provider may serve as page pg of endpoint ep
UpstreamTables(ep, pg, maxlen) ==
    UNION { { [i \in 1..n |-> UpstreamRow(ep, pg, i, f[i])] : f \in [1..n -> RowKinds] }
            : n \in 1..maxlen }

NoKeys == [k \in {} |-> <<>>]
DecoyTable(ep, pg) == <<UpstreamRow(ep, pg, 0, "none")>>

\* JSON objects without rows
EmptyBodies ==
    { NoKeys, [Table |-> <<>>], [table |-> <<>>], [Table |-> <<>>, table |-> <<>>] }

\* JSON objects carrying the row list t
BodiesWith(ep, pg, t) ==
    { [Table |-> t], [table |-> t], [Table |-> <<>>, table |-> t],
      [Table |-> t, table |-> DecoyTable(ep, pg)] }

----------------------------------------------------------------------------
(* Row enrichment *)

attachment_url(name) == AttachBase \o name

\* item.get(key): None is modelled as the empty string, both are falsy
item_get(item, key) == IF key \in DOMAIN item THEN item[key] ELSE ""

\* mutant of attach_of: only the upper-case key is read
attach_of_upper_only(item) == item_get(item, "ATTACHMENTNAME")

attach_of(item) ==
    IF item_get(item, "ATTACHMENTNAME") # "" THEN item_get(item, "ATTACHMENTNAME")
    ELSE item_get(item, "AttachmentName")

enrich(item) ==
    IF attach_of(item) # ""
    THEN [k \in DOMAIN item \cup {"pdf_url"} |->
             IF k = "pdf_url" THEN attachment_url(attach_of(item)) ELSE item[k]]
    ELSE item

\* table = page_data.get("Table") or page_data.get("table") or []
table_of(page_data) ==
    IF "Table" \in DOMAIN page_data /\ page_data.Table # <<>> THEN page_data.Table
    ELSE IF "table" \in DOMAIN page_data /\ page_data.table # <<>> THEN page_data.table
    ELSE <<>>

\* the items of table that precede its first item that is not a mapping
RECURSIVE dict_prefix(_)
dict_prefix(table) ==
    IF table = <<>> \/ ~IsDict(Head(table)) THEN <<>>
    ELSE <<Head(table)>> \o dict_prefix(Tail(table))

enrich_all(items) == [i \in 1..Len(items) |-> enrich(items[i])]

----------------------------------------------------------------------------
(* Requests *)

DateInputs ==
    { Absent,
      <<"2", "0", "2", "4", "-", "0", "2", "-", "2", "9">>,
      <<"2", "0", "2", "4", "-", "0", "2", "-", "3", "0">>,
      <<"2", "0", "2", "3", "-", "0", "2", "-", "2", "9">>,
      <<"2", "0", "2", "4", "-", "1", "3", "-", "0", "1">>,
      <<"n", "o", "t", "-", "a", "-", "d", "a", "t", "e">>,
      <<"2", "0", "2", "4", "-", "2", "-", "2", "9">> }

LimitInputs ==
    { Absent, <<"0">>, <<"2">>, <<"9", "9", "9", "9">>, <<"-", "5">>, <<"a", "b", "c">> }

\* utcnow() is read only when no date is supplied: 18:30 UTC (the next day
\* in India), and 18:29 UTC for the bare request
NowInputs(q) ==
    IF q.date = Absent /\ q.limit_pages = Absent
    THEN { [y |-> 2024, m |-> 2, d |-> 28, min |-> 1109],
           [y |-> 2024, m |-> 2, d |-> 28, min |-> 1110] }
    ELSE { [y |-> 2024, m |-> 2, d |-> 28, min |-> 1110] }

----------------------------------------------------------------------------
(* Responses *)

ContentType == <<"Content-Type", "application/json; charset=utf-8">>

CorsHeaders ==
    { <<"Access-Control-Allow-Origin", "*">>,
      <<"Access-Control-Allow-Methods", "GET, OPTIONS">>,
      <<"Access-Control-Allow-Headers", "Content-Type">> }

NoBody == [none |-> TRUE]

\* one status line and header block, with the body written after it (NoBody
\* when no body was written)
Response(code, headers, body) == [code |-> code, headers |-> headers, body |-> body]

Envelope(dt, rs) == [date |-> isoformat(dt), count |-> Len(rs), rows |-> rs]

\* text.encode("utf-8") raises UnicodeEncodeError on a lone surrogate, which
\* json.dumps(ensure_ascii=False) leaves in the text
Encodable(rs) == \A i \in 1..Len(rs) : rs[i].HEADLINE # HeadlineSurrogate

----------------------------------------------------------------------------
(* The state machine *)

\* self.path: a path with a query, or one such as //[ on which urlparse
\* raises ValueError (no query is parsed then)
PathInputs == {"wellformed", "invalid_netloc"}

QueryInputs(pth) ==
    IF pth = "wellformed" THEN [date : DateInputs, limit_pages : LimitInputs]
    ELSE { [date |-> Absent, limit_pages |-> Absent] }

Init ==
    /\ pc = "parse"
    /\ path \in PathInputs
    /\ qs \in QueryInputs(path)
    /\ now_utc \in NowInputs(qs)
    /\ date_obj = NoDate
    /\ page_limit = DefaultPageLimit
    /\ endpoint = 1
    /\ p = 1
    /\ rows = <<>>
    /\ session = "none"
    /\ sent = <<>>
    /\ wire = <<>>

\* do_GET, lines 131-132 and 178-185: urlparse raises, outside the endpoint
\* loop and before any status line; the except clause answers 500
do_GET_bad_path ==
    /\ pc = "parse"
    /\ path = "invalid_netloc"
    /\ wire' = Append(wire, Response(500, {ContentType}, [error |-> UrlErrorMsg]))
    /\ pc' = "done"
    /\ UNCHANGED <<path, qs, now_utc, date_obj, page_limit, endpoint, p, rows, session, sent>>

\* do_GET, lines 136-148: the date parameter does not parse
do_GET_invalid_date ==
    /\ pc = "parse"
    /\ path = "wellformed"
    /\ qs.date # Absent
    /\ ~fromisoformat(qs.date).ok
    /\ wire' = Append(wire, Response(400, {ContentType}, [error |-> InvalidDateMsg]))
    /\ pc' = "done"
    /\ UNCHANGED <<path, qs, now_utc, date_obj, page_limit, endpoint, p, rows, session, sent>>

\* do_GET, lines 132-160, up to the entry of the endpoint loop
do_GET_begin ==
    /\ pc = "parse"
    /\ path = "wellformed"
    /\ qs.date # Absent => fromisoformat(qs.date).ok
    /\ date_obj' = IF qs.date # Absent THEN fromisoformat(qs.date).date
                   ELSE iso_today_india(now_utc)
    /\ page_limit' = parse_limit(qs)
    /\ rows' = <<>>
    /\ session' = "open"
    /\ endpoint' = 1
    /\ pc' = "probe"
    /\ UNCHANGED <<path, qs, now_utc, p, sent, wire>>

\* one upstream request: its endpoint and payload, how it ended, the length
\* of the row list a pagination response carried and how many rows the
\* request added to the accumulator
Request(phase, pageno, outcome, served, got) ==
    [endpoint |-> endpoint_chain[endpoint], pageno |-> pageno, phase |-> phase,
     strPrevDate |-> fmt_bse_date(date_obj), outcome |-> outcome,
     served |-> served, got |-> got]

\* mutant of next_endpoint: the session stays open when the chain is exhausted
next_endpoint_leak ==
    IF endpoint < Len(endpoint_chain)
    THEN /\ endpoint' = endpoint + 1
         /\ pc' = "probe"
         /\ session' = session
    ELSE /\ endpoint' = endpoint
         /\ pc' = "respond"
         /\ session' = session

\* mutant of next_endpoint: the chain is left instead of continued
next_endpoint_give_up ==
    /\ endpoint' = endpoint
    /\ pc' = "respond"
    /\ session' = "closed"

\* except Exception: continue (lines 106-108), and the end of the chain
next_endpoint ==
    IF endpoint < Len(endpoint_chain)
    THEN /\ endpoint' = endpoint + 1
         /\ pc' = "probe"
         /\ session' = session
    ELSE /\ endpoint' = endpoint
         /\ pc' = "respond"
         /\ session' = "closed"

\* mutant of after_pages: the chain always goes on to the next endpoint
after_pages_always_next ==
    IF endpoint < Len(endpoint_chain)
    THEN /\ endpoint' = endpoint + 1
         /\ pc' = "probe"
         /\ session' = session
    ELSE /\ endpoint' = endpoint
         /\ pc' = "respond"
         /\ session' = "closed"

\* if rows: break (lines 104-105); otherwise the next iteration of the chain
after_pages ==
    IF rows # <<>>
    THEN /\ endpoint' = endpoint
         /\ pc' = "respond"
         /\ session' = "closed"
    ELSE next_endpoint

\* lines 80-82: the probe raises (transport error, timeout, HTTP status,
\* body that is not JSON)
probe_raises ==
    /\ pc = "probe"
    /\ sent' = Append(sent, Request("probe", 1, "raise", 0, 0))
    /\ next_endpoint
    /\ UNCHANGED <<path, qs, now_utc, date_obj, page_limit, p, rows, wire>>

\* mutant of probe_ok: the rows of the probed page are accumulated too
probe_ok_keeps_rows ==
    /\ pc = "probe"
    /\ sent' = Append(sent, Request("probe", 1, "ok", 0, 0))
    /\ rows' = IF Len(rows) < MaxRows
               THEN Append(rows, enrich(UpstreamRow(endpoint_chain[endpoint], 1, 1, "none")))
               ELSE rows
    /\ p' = 1
    /\ pc' = "page"
    /\ UNCHANGED <<path, qs, now_utc, date_obj, page_limit, endpoint, session, wire>>

\* lines 80-85: the probe returns, its data is not used
probe_ok ==
    /\ pc = "probe"
    /\ sent' = Append(sent, Request("probe", 1, "ok", 0, 0))
    /\ p' = 1
    /\ pc' = "page"
    /\ UNCHANGED <<path, qs, now_utc, date_obj, page_limit, endpoint, rows, session, wire>>

\* mutant of page_raises: the exception is not caught by the endpoint loop
page_raises_escapes ==
    /\ pc = "page"
    /\ p <= page_limit
    /\ sent' = Append(sent, Request("page", p, "raise", 0, 0))
    /\ session' = "closed"
    /\ wire' = Append(wire, Response(500, {ContentType}, [error |-> "Read timed out."]))
    /\ pc' = "done"
    /\ UNCHANGED <<path, qs, now_utc, date_obj, page_limit, endpoint, p, rows>>

\* lines 86-92: the request for page p raises, or its JSON is not an object
page_raises ==
    /\ pc = "page"
    /\ p <= page_limit
    /\ sent' = Append(sent, Request("page", p, "raise", 0, 0))
    /\ next_endpoint
    /\ UNCHANGED <<path, qs, now_utc, date_obj, page_limit, p, rows, wire>>

\* mutant of page_empty: the loop goes on after a page without rows
page_empty_continue ==
    /\ pc = "page"
    /\ p <= page_limit
    /\ sent' = Append(sent, Request("page", p, "empty", 0, 0))
    /\ p' = p + 1
    /\ UNCHANGED <<pc, path, qs, now_utc, date_obj, page_limit, endpoint, rows, session, wire>>

\* lines 86-94: page p has no rows, break
page_empty ==
    /\ pc = "page"
    /\ p <= page_limit
    /\ \E page_data \in EmptyBodies :
          /\ table_of(page_data) = <<>>
          /\ sent' = Append(sent, Request("page", p, "empty", 0, 0))
    /\ after_pages
    /\ UNCHANGED <<path, qs, now_utc, date_obj, page_limit, p, rows, wire>>

\* mutant of page_rows: the page number does not advance
page_rows_no_advance ==
    /\ pc = "page"
    /\ p <= page_limit
    /\ Len(rows) < MaxRows
    /\ \E t \in UpstreamTables(endpoint_chain[endpoint], p, MaxRows - Len(rows)) :
       \E page_data \in BodiesWith(endpoint_chain[endpoint], p, t) :
          /\ \A i \in 1..Len(table_of(page_data)) : IsDict(table_of(page_data)[i])
          /\ rows' = rows \o enrich_all(table_of(page_data))
          /\ sent' = Append(sent, Request("page", p, "rows", Len(table_of(page_data)),
                                         Len(table_of(page_data))))
    /\ UNCHANGED <<pc, path, qs, now_utc, date_obj, page_limit, endpoint, p, session, wire>>

\* mutant of page_rows: the rows of a page are put in front of the accumulator
page_rows_prepend ==
    /\ pc = "page"
    /\ p <= page_limit
    /\ Len(rows) < MaxRows
    /\ \E t \in UpstreamTables(endpoint_chain[endpoint], p, MaxRows - Len(rows)) :
       \E page_data \in BodiesWith(endpoint_chain[endpoint], p, t) :
          /\ \A i \in 1..Len(table_of(page_data)) : IsDict(table_of(page_data)[i])
          /\ rows' = enrich_all(table_of(page_data)) \o rows
          /\ sent' = Append(sent, Request("page", p, "rows", Len(table_of(page_data)),
                                         Len(table_of(page_data))))
    /\ p' = p + 1
    /\ UNCHANGED <<pc, path, qs, now_utc, date_obj, page_limit, endpoint, session, wire>>

\* lines 86-101: page p has rows and all its items are mappings
page_rows ==
    /\ pc = "page"
    /\ p <= page_limit
    /\ Len(rows) < MaxRows
    /\ \E t \in UpstreamTables(endpoint_chain[endpoint], p, MaxRows - Len(rows)) :
       \E page_data \in BodiesWith(endpoint_chain[endpoint], p, t) :
          /\ \A i \in 1..Len(table_of(page_data)) : IsDict(table_of(page_data)[i])
          /\ rows' = rows \o enrich_all(table_of(page_data))
          /\ sent' = Append(sent, Request("page", p, "rows", Len(table_of(page_data)),
                                         Len(table_of(page_data))))
    /\ p' = p + 1
    /\ UNCHANGED <<pc, path, qs, now_utc, date_obj, page_limit, endpoint, session, wire>>

\* lines 86-101: item.get raises on an item of page p that is not a mapping;
\* the items before it have been appended
page_bad_item ==
    /\ pc = "page"
    /\ p <= page_limit
    /\ Len(rows) < MaxRows
    /\ \E t \in UpstreamTables(endpoint_chain[endpoint], p, MaxRows - Len(rows)) :
       \E page_data \in BodiesWith(endpoint_chain[endpoint], p, t) :
          /\ \E i \in 1..Len(table_of(page_data)) : ~IsDict(table_of(page_data)[i])
          /\ rows' = rows \o enrich_all(dict_prefix(table_of(page_data)))
          /\ sent' = Append(sent, Request("page", p, "baditem", Len(table_of(page_data)),
                                         Len(dict_prefix(table_of(page_data)))))
    /\ next_endpoint
    /\ UNCHANGED <<path, qs, now_utc, date_obj, page_limit, p, wire>>

\* line 85: range(1, page_limit + 1) is exhausted
pages_exhausted ==
    /\ pc = "page"
    /\ p > page_limit
    /\ after_pages
    /\ UNCHANGED <<path, qs, now_utc, date_obj, page_limit, p, rows, sent, wire>>

\* mutant of respond_ok: an empty result is reported as an error
respond_ok_error_when_empty ==
    /\ pc = "respond"
    /\ Encodable(rows)
    /\ wire' = Append(wire, IF rows = <<>>
                            THEN Response(500, {ContentType}, [error |-> "no data"])
                            ELSE Response(200, {ContentType} \cup CorsHeaders,
                                          Envelope(date_obj, rows)))
    /\ pc' = "done"
    /\ UNCHANGED <<path, qs, now_utc, date_obj, page_limit, endpoint, p, rows, session, sent>>

\* do_GET, lines 162-177
respond_ok ==
    /\ pc = "respond"
    /\ Encodable(rows)
    /\ wire' = Append(wire, Response(200, {ContentType} \cup CorsHeaders,
                                     Envelope(date_obj, rows)))
    /\ pc' = "done"
    /\ UNCHANGED <<path, qs, now_utc, date_obj, page_limit, endpoint, p, rows, session, sent>>

\* do_GET, lines 162-185: text.encode raises after the 200 status line and
\* headers went out; the except clause writes a 500 response after them
respond_encode_error ==
    /\ pc = "respond"
    /\ ~Encodable(rows)
    /\ wire' = wire \o << Response(200, {ContentType} \cup CorsHeaders, NoBody),
                          Response(500, {ContentType}, [error |-> EncodeErrorMsg]) >>
    /\ pc' = "done"
    /\ UNCHANGED <<path, qs, now_utc, date_obj, page_limit, endpoint, p, rows, session, sent>>

Next ==
    \/ do_GET_bad_path
    \/ do_GET_invalid_date
    \/ do_GET_begin
    \/ probe_raises
    \/ probe_ok
    \/ page_raises
    \/ page_empty
    \/ page_rows
    \/ page_bad_item
    \/ pages_exhausted
    \/ respond_ok
    \/ respond_encode_error

Spec == Init /\ [][Next]_vars

\* the handler runs to completion: each upstream request returns or raises
\* (15-second timeout, line 30) and nothing else blocks it
FairSpec == Spec /\ WF_vars(Next)

----------------------------------------------------------------------------
(* Vocabulary of the properties *)

Answered == pc = "done"
Fetched == session # "none"
Returned == pc \in {"respond", "done"}

SentTo(e) == { i \in 1..Len(sent) : sent[i].endpoint = e }
Raised(e) == \E i \in SentTo(e) : sent[i].outcome = "raise"
GotRows(e) == \E i \in SentTo(e) : sent[i].got > 0

\* the response is the single, complete 200 response with count 0 and no rows
EmptySuccess ==
    /\ Len(wire) = 1
    /\ wire[1].code = 200
    /\ wire[1].body # NoBody
    /\ wire[1].body.count = 0
    /\ wire[1].body.rows = <<>>

----------------------------------------------------------------------------
(* C1 *)

\* C1: all rows returned by _gather_for_date come from one single endpoint:
\* the result never holds rows of the primary together with rows of the
\* fallback.  (Violated: rows is not reset when an endpoint is abandoned.)
C1_NoCrossEndpointMerging ==
    Returned =>
        \A i, j \in 1..Len(rows) : rows[i].NEWSID[1] = rows[j].NEWSID[1]

----------------------------------------------------------------------------
(* C2 *)

\* C2: once at least one row has been accumulated from the primary endpoint,
\* no request is sent to the fallback endpoint.  (Violated: a raise on a later
\* page of the primary moves on to the fallback.)
C2_FirstEndpointWithRowsWins ==
    \A i \in SentTo(BSE_FALLBACK_URL) :
        ~ \E j \in 1..(i - 1) :
              sent[j].endpoint = BSE_PRIMARY_URL /\ sent[j].got > 0

----------------------------------------------------------------------------
(* C3 *)

\* C3: a GET with a valid (or no) date for which neither endpoint added a row
\* (empty page 1, or a raise before any row) is answered 200 with count 0 and
\* rows [], and with nothing else.
C3_BothEmptyIsEmptySuccess ==
    (Answered /\ Fetched /\ \A i \in 1..Len(sent) : sent[i].got = 0)
        => EmptySuccess

C3_Witness ==
    /\ Answered
    /\ SentTo(BSE_PRIMARY_URL) # {}
    /\ SentTo(BSE_FALLBACK_URL) # {}
    /\ \A i \in 1..Len(sent) : sent[i].got = 0
    /\ \E i \in 1..Len(sent) : sent[i].outcome = "empty"
    /\ \E i \in 1..Len(sent) : sent[i].outcome = "raise"
    /\ EmptySuccess

----------------------------------------------------------------------------
(* C4 *)

\* C4: whenever every candidate endpoint raised on its probe or on one of its
\* pages, or returned no row, the response is 200 with count 0 and rows [].
\* (Violated: rows of the pages before the raise are kept and returned.)
C4_UpstreamFailureIsEmptySuccess ==
    (Answered /\ Fetched /\
     \A e \in {BSE_PRIMARY_URL, BSE_FALLBACK_URL} : Raised(e) \/ ~GotRows(e))
        => EmptySuccess

----------------------------------------------------------------------------
(* C5 *)

\* C5: every response written by do_GET (200, 400, 500) carries the three
\* CORS headers.  (Violated: only the 200 response does.)
C5_EveryResponseHasCors ==
    \A i \in 1..Len(wire) :
        /\ <<"Access-Control-Allow-Origin", "*">> \in wire[i].headers
        /\ <<"Access-Control-Allow-Methods", "GET, OPTIONS">> \in wire[i].headers
        /\ <<"Access-Control-Allow-Headers", "Content-Type">> \in wire[i].headers

----------------------------------------------------------------------------
(* C6 *)

\* C6: when a request to the primary raises (probe or any page), no further
\* request goes to the primary, the next upstream request is page 1 of the
\* fallback, and the GET is not answered before that request was made.
C6_RaiseAbandonsPrimary ==
    \A i \in 1..Len(sent) :
        (sent[i].endpoint = BSE_PRIMARY_URL /\ sent[i].outcome = "raise") =>
            /\ \A j \in (i + 1)..Len(sent) : sent[j].endpoint # BSE_PRIMARY_URL
            /\ i < Len(sent) =>
                  /\ sent[i + 1].endpoint = BSE_FALLBACK_URL
                  /\ sent[i + 1].pageno = 1
            /\ i = Len(sent) => (~Returned /\ wire = <<>>)

C6_Witness ==
    /\ Answered
    /\ \E i \in 1..Len(sent) :
          /\ sent[i].endpoint = BSE_PRIMARY_URL
          /\ sent[i].outcome = "raise"
          /\ sent[i].phase = "page"
          /\ sent[i].pageno = 2
          /\ sent[i + 1].endpoint = BSE_FALLBACK_URL
    /\ \E i \in 1..Len(sent) :
          sent[i].endpoint = BSE_PRIMARY_URL /\ sent[i].phase = "probe"
          /\ sent[i].outcome = "ok"

----------------------------------------------------------------------------
(* C7 *)

\* C7: once a pagination response of an endpoint has an empty or missing
\* Table/table list, no request with a higher page number is sent to that
\* endpoint, whatever the page limit.
C7_StopAtFirstEmptyPage ==
    \A i \in 1..Len(sent) :
        (sent[i].phase = "page" /\ sent[i].outcome = "empty") =>
            \A j \in (i + 1)..Len(sent) :
                sent[j].endpoint = sent[i].endpoint => sent[j].pageno <= sent[i].pageno

C7_Witness ==
    /\ Answered
    /\ \E i \in 1..Len(sent) :
          /\ sent[i].phase = "page"
          /\ sent[i].outcome = "empty"
          /\ sent[i].pageno = 2
          /\ sent[i].pageno < page_limit
          /\ i = Len(sent)

----------------------------------------------------------------------------
(* C8 *)

IsIntegerText(s) ==
    \/ IsDigits(s)
    \/ Len(s) > 1 /\ s[1] \in {"-", "+"} /\ IsDigits(Tail(s))

IntegerOf(s) ==
    IF s[1] = "-" THEN 0 - DecVal(Tail(s))
    ELSE IF s[1] = "+" THEN DecVal(Tail(s)) ELSE DecVal(s)

----------------------------------------------------------------------------
(* C9 *)

InvalidDateTexts ==
    { <<"2", "0", "2", "4", "-", "0", "2", "-", "3", "0">>,
      <<"2", "0", "2", "3", "-", "0", "2", "-", "2", "9">>,
      <<"2", "0", "2", "4", "-", "1", "3", "-", "0", "1">>,
      <<"n", "o", "t", "-", "a", "-", "d", "a", "t", "e">>,
      <<"2", "0", "2", "4", "-", "2", "-", "2", "9">> }

\* C9: a GET whose date is supplied and is not a valid ISO calendar date is
\* answered 400 with body {"error": "Invalid date. Use YYYY-MM-DD."}, whatever
\* limit_pages is: no upstream request, no 200 and no 500.
C9_InvalidDateIs400 ==
    qs.date \in InvalidDateTexts =>
        /\ sent = <<>>
        /\ \A i \in 1..Len(wire) : wire[i].code = 400
        /\ pc # "parse" =>
              /\ Answered
              /\ Len(wire) = 1
              /\ wire[1].body = [error |-> "Invalid date. Use YYYY-MM-DD."]

C9_Witness ==
    /\ Answered
    /\ qs.date = <<"2", "0", "2", "4", "-", "0", "2", "-", "3", "0">>
    /\ qs.limit_pages = <<"a", "b", "c">>
    /\ Len(wire) = 1
    /\ wire[1].code = 400

----------------------------------------------------------------------------
(* C10 *)

AttachmentKeys == {"ATTACHMENTNAME", "AttachmentName"}

\* the non-empty attachment names of a row
NamesOf(r) == { r[k] : k \in AttachmentKeys \cap DOMAIN r } \ {""}

Without(r, key) == [k \in DOMAIN r \ {key} |-> r[k]]

\* the rows the client received
ReturnedRows ==
    UNION { { wire[i].body.rows[n] : n \in 1..Len(wire[i].body.rows) }
            : i \in { j \in 1..Len(wire) : wire[j].code = 200 /\ wire[j].body # NoBody } }

----------------------------------------------------------------------------
(* C11 *)

\* a was received before b: earlier endpoint of the chain, then lower page,
\* then earlier position in the page
ReceivedBefore(a, b) ==
    \/ a[1] < b[1]
    \/ a[1] = b[1] /\ a[2] < b[2]
    \/ a[1] = b[1] /\ a[2] = b[2] /\ a[3] < b[3]

\* the row lists of the 200 bodies written
ReturnedLists ==
    { wire[i].body.rows :
        i \in { j \in 1..Len(wire) : wire[j].code = 200 /\ wire[j].body # NoBody } }

----------------------------------------------------------------------------
(* C12 *)

----------------------------------------------------------------------------
(* C13 *)

\* a row whose text cannot be encoded went into the accumulator: the fault
\* that text.encode raises outside the endpoint loop
EncodeFault ==
    \E i \in 1..Len(rows) : rows[i].HEADLINE = "Board Meeting \\ud83d"

LastResponse == wire[Len(wire)]

----------------------------------------------------------------------------
(* C14 *)

----------------------------------------------------------------------------
(* C15 *)

\* C15 as stated: the requests to one endpoint carry strictly increasing page
\* numbers, so that each page number is requested from it at most once.
\* (Violated: page 1 is requested by the probe and again by the loop.)
C15_EachPageRequestedOnce ==
    \A i, j \in 1..Len(sent) :
        (i < j /\ sent[i].endpoint = sent[j].endpoint) =>
            sent[i].pageno < sent[j].pageno

\* the pagination-loop requests sent to the endpoint of request i, up to i
LoopRequestsUpTo(i) ==
    { j \in 1..i : sent[j].endpoint = sent[i].endpoint /\ sent[j].phase = "page" }

\* C15 amended: each endpoint tried gets one probe for page 1 first; after
\* it the pagination-loop requests carry the page numbers 1, 2, 3, ... in
\* this order, up to at most limit_pages.  The loop requests each page
\* number at most once; page 1 is requested at most twice, probe included.
C15_LoopPagesConsecutive ==
    \A i \in 1..Len(sent) :
        /\ sent[i].phase = "page" =>
              /\ sent[i].pageno = Cardinality(LoopRequestsUpTo(i))
              /\ sent[i].pageno <= page_limit
              /\ \E j \in 1..(i - 1) :
                    sent[j].endpoint = sent[i].endpoint /\ sent[j].phase = "probe"
        /\ sent[i].phase = "probe" =>
              /\ sent[i].pageno = 1
              /\ \A j \in 1..(i - 1) : sent[j].endpoint # sent[i].endpoint

C15_Witness ==
    /\ Answered
    /\ Len(sent) = 4
    /\ \A i \in 1..4 : sent[i].endpoint = BSE_PRIMARY_URL
    /\ sent[1].phase = "probe"
    /\ sent[2].pageno = 1 /\ sent[2].outcome = "rows"
    /\ sent[3].pageno = 2 /\ sent[3].outcome = "rows"
    /\ sent[4].pageno = 3 /\ sent[4].outcome = "empty"

----------------------------------------------------------------------------
(* C16 *)

\* at most limit_pages + 1 requests per endpoint (one probe plus the loop),
\* at most 2 * (limit_pages + 1) per GET, and no request to an endpoint that
\* has been left
RequestsBounded ==
    /\ \A e \in {BSE_PRIMARY_URL, BSE_FALLBACK_URL} :
          Cardinality(SentTo(e)) <= page_limit + 1
    /\ Len(sent) <= 2 * (page_limit + 1)
    /\ \A i, j \in 1..Len(sent) :
          (i < j /\ sent[i].endpoint = BSE_FALLBACK_URL) =>
              sent[j].endpoint # BSE_PRIMARY_URL

\* an upper bound on the steps the handler still takes: it is a natural
\* number and every step lowers it
StepsLeft ==
    LET later == (Len(endpoint_chain) - endpoint) * (page_limit + 3) IN
    CASE pc = "parse" -> Len(endpoint_chain) * (200 + 3) + 2
      [] pc = "probe" -> later + page_limit + 3
      [] pc = "page" -> later + (page_limit + 1 - p) + 2
      [] pc = "respond" -> 1
      [] pc = "done" -> 0

\* C16: provided each upstream request returns or raises, every GET ends
\* with a response after a bounded number of upstream requests: the handler
\* can always take a step until it has answered, every step lowers a
\* natural-number bound on the steps left, at most limit_pages + 1 requests
\* go to each endpoint, hence at most 2 * (limit_pages + 1) in all, and an
\* endpoint that has been left is never requested again.
C16_TerminatesWithinBound ==
    /\ [](RequestsBounded /\ StepsLeft >= 0)
    /\ [](Answered \/ ENABLED Next)
    /\ [](Answered => wire # <<>>)
    /\ [][StepsLeft' < StepsLeft]_vars

C16_Witness ==
    /\ Answered
    /\ page_limit = 1
    /\ Len(sent) = 4
    /\ Cardinality(SentTo(BSE_PRIMARY_URL)) = 2
    /\ Cardinality(SentTo(BSE_FALLBACK_URL)) = 2
    /\ wire # <<>>

----------------------------------------------------------------------------
(* C17 *)

\* the origins <<endpoint, page, 1>> .. <<endpoint, page, n>> of the rows of
\* the requests sent[1..k], in the order of the requests, n being the
\* request's field f (served or got)
RECURSIVE OriginsOf(_, _)
OriginsOf(k, f) ==
    IF k = 0 THEN <<>>
    ELSE OriginsOf(k - 1, f) \o
         [n \in 1..sent[k][f] |-> <<sent[k].endpoint, sent[k].pageno, n>>]

ResultHasOrigins(f) ==
    [i \in 1..Len(rows) |-> rows[i].NEWSID] = OriginsOf(Len(sent), f)

ProbeAddsNothing ==
    /\ \A k \in 1..Len(sent) :
          (sent[k].phase = "probe" \/ sent[k].outcome \in {"raise", "empty"}) =>
              sent[k].got = 0
    /\ \A i, j \in 1..Len(rows) : rows[i].NEWSID = rows[j].NEWSID => i = j
    /\ \A k \in 1..Len(sent) :
          (sent[k].phase = "page" /\ sent[k].pageno = 1 /\ sent[k].outcome = "raise") =>
              \A i \in 1..Len(rows) : rows[i].NEWSID[1] # sent[k].endpoint

\* C17 as stated: the probe of page 1 never contributes rows: the accumulated
\* result is exactly the concatenation of the non-empty Table lists returned
\* by the pagination-loop requests, so the rows of page 1 appear once, and an
\* endpoint whose probe succeeds but whose loop request for page 1 raises
\* contributes no rows.  (Violated: of a Table list holding an item that is
\* not a mapping only the rows before that item are accumulated.)
C17_ResultIsAllLoopTables ==
    ProbeAddsNothing /\ ResultHasOrigins("served")

\* C17 amended: the same, each Table list being taken whole when all its
\* items are mappings and cut before its first item that is not a mapping
\* otherwise.
C17_ProbeContributesNothing ==
    /\ ProbeAddsNothing
    /\ ResultHasOrigins("got")
    /\ \A k \in 1..Len(sent) :
          /\ sent[k].outcome = "rows" => (sent[k].got = sent[k].served /\ sent[k].got > 0)
          /\ sent[k].outcome = "baditem" => sent[k].got < sent[k].served

C17_Witness ==
    /\ Answered
    /\ Len(sent) = 4
    /\ sent[1].endpoint = BSE_PRIMARY_URL /\ sent[1].outcome = "ok"
    /\ sent[2].endpoint = BSE_PRIMARY_URL /\ sent[2].pageno = 1
    /\ sent[2].outcome = "raise"
    /\ sent[3].endpoint = BSE_FALLBACK_URL /\ sent[3].outcome = "ok"
    /\ sent[4].endpoint = BSE_FALLBACK_URL /\ sent[4].pageno = 1
    /\ sent[4].outcome = "rows"
    /\ Len(rows) = 1
    /\ rows[1].NEWSID = <<BSE_FALLBACK_URL, 1, 1>>

----------------------------------------------------------------------------
(* C18 *)

\* C18: every GET is answered with exactly one HTTP response (one status
\* line, one header block, one body) among 200, 400 and 500: after a 400 no
\* fetch and no second response follows, and a fault raised after the 200
\* status line has been sent does not cause a second, 500 response to be
\* written.  (Violated: text.encode raises after end_headers and the except
\* clause writes a 500 status line, headers and body after the 200 ones.)
C18_ExactlyOneResponse ==
    /\ Len(wire) <= 1
    /\ Answered =>
          /\ Len(wire) = 1
          /\ wire[1].code \in {200, 400, 500}
          /\ wire[1].body # NoBody
    /\ (\E i \in 1..Len(wire) : wire[i].code = 400) =>
          (sent = <<>> /\ session = "none" /\ Answered)

====
